---- MODULE Spec2Model ----
(***************************************************************************)
(* malloc()/free() of src/malloc_free.c (the final versions, lines 55-171) *)
(* over sbrk(), a singly linked list of headers and one global mutex.      *)
(*                                                                         *)
(* The heap is modelled at byte level, little endian, with the LP64 layout *)
(* of `union header`: the code extends the break by sizeof(head_) + size   *)
(* (a pointer's size) and then uses sizeof(header_t) bytes for the header, *)
(* so headers, payloads and the break overlap, and what a field holds is   *)
(* decided by the bytes last written over it.                              *)
(***************************************************************************)
EXTENDS Integers, Sequences, FiniteSets, TLC

\* ------------------------------------------------------------ bounds
\* Threads calling malloc()/free() concurrently.
NThreads == 2
\* Calls made in one run of the concurrent specification.
MaxOps == 3
\* Calls made in one run of the single-caller specification.
MaxSeqOps == 5
\* sbrk() refuses to move the break more than this many bytes above the base.
HeapLimit == 72

\* ------------------------------------------------------------ layout (LP64)
NULL == 0
SizeofSizeT == 8
SizeofUnsigned == 4
SizeofPtr == 8
SizeofALIGN == 16

Max(a, b) == IF a >= b THEN a ELSE b
RoundUp(n, a) == ((n + a - 1) \div a) * a

\* struct { size_t size; unsigned is_free; union header *next; } s;
OffSize == 0
OffIsFree == OffSize + SizeofSizeT
OffNext == RoundUp(OffIsFree + SizeofUnsigned, SizeofPtr)
SizeofStruct == OffNext + SizeofPtr
\* sizeof(header_t): a union is as large as its largest member.
SizeofHeader == RoundUp(Max(SizeofStruct, SizeofALIGN), SizeofPtr)
\* sizeof(head_): head_ is a header_t *, so this is the size of a pointer.
SizeofHead_ == SizeofPtr

\* ------------------------------------------------------------ environment
\* The break the process starts with: 0x602000, page aligned, as the loader
\* leaves it after the data segment of a small executable.
InitBreaks == {6299648}
\* Bytes from the initial break that may be mapped although they lie above
\* the current break (the rest of the page sbrk() last mapped).
PageSize == 16 * 256
\* Stand-in for every word value from 2^24 up to 2^64 - 2^24 - 1: no address of
\* the heap page and no request size of the model lies there. The 64-bit words
\* from 2^64 - 2^24 up are written as the negative numbers they are in two's
\* complement: -24 is the size_t 2^64 - 24.
Huge == 256 * 256 * 256

Threads == 1..NThreads
\* Request sizes: below, at and above the 16 bytes by which sizeof(header_t)
\* exceeds sizeof(head_).
Sizes == {1, 8, 16}
\* The sizes of the end-to-end scenario.
ScenSizes == {5, 10, 20}
\* Requests near SIZE_MAX, whose sum with sizeof(head_) wraps around the
\* 64-bit word, and one that does not: 2^64 - 24, 2^64 - 8, 16.
BigSizes == {0 - 24, 0 - 8, 16}

VARIABLES
    base,     \* the initial break B0
    brk,      \* the program break, as sbrk(0) returns it
    head,     \* header_t *head
    tail,     \* header_t *tail
    mem,      \* the bytes of the heap page that are not zero: address -> 1..255
    lock,     \* global_malloc_lock: 0 when free, else the thread holding it
    pc,       \* where each thread is
    arg,      \* each thread's argument (size or block)
    ret,      \* each thread's return value
    crashed,  \* the process took SIGSEGV
    live,     \* what the callers hold: allocations returned and not yet freed
    hist,     \* the calls in the order they took effect
    tag,      \* each thread's place in hist of the call it is returning from
    budget    \* calls left

vars == <<base, brk, head, tail, mem, lock, pc, arg, ret, crashed, live, hist, tag, budget>>

\* ------------------------------------------------------------ memory
Rd(m, a) == IF a \in DOMAIN m THEN m[a] ELSE 0

Pow256(i) == IF i = 0 THEN 1 ELSE IF i = 1 THEN 256 ELSE 256 * 256

\* Byte i of the little-endian image of v (-Huge <= v < Huge): the bytes above
\* the third are 0xFF for a negative v, 0 otherwise.
ByteOf(v, i) == IF i < 3 THEN (v \div Pow256(i)) % 256
                ELSE IF v < 0 THEN 255 ELSE 0

\* The n-byte word at a. A 64-bit word whose bytes above the third are all
\* 0xFF is the negative number it is in two's complement; any other word with
\* a non-zero byte above the third is Huge.
RdWord(m, a, n) ==
    LET low == Rd(m, a) + 256 * Rd(m, a + 1) + 256 * 256 * Rd(m, a + 2)
    IN  IF n > SizeofUnsigned /\ \A i \in 3..(n - 1) : Rd(m, a + i) = 255
        THEN low - Huge
        ELSE IF \E i \in 3..(n - 1) : Rd(m, a + i) # 0
        THEN Huge
        ELSE low

\* m with the n-byte word v stored at a.
WrWord(m, a, n, v) ==
    LET new(x) == IF x \in a..(a + n - 1) THEN ByteOf(v, x - a) ELSE Rd(m, x)
        dom == {x \in (DOMAIN m) \cup (a..(a + n - 1)) : new(x) # 0}
    IN [x \in dom |-> new(x)]

\* How an access to [a, a+n) stands to break b: "ok" inside [base, b), "slack"
\* when it reaches above the break but stays in the page, "wild" otherwise.
Acc(a, n, b) ==
    IF a < base \/ a + n > base + PageSize THEN "wild"
    ELSE IF a + n <= b THEN "ok"
    ELSE "slack"

Worst(c, d) ==
    IF c = "wild" \/ d = "wild" THEN "wild"
    ELSE IF c = "slack" \/ d = "slack" THEN "slack"
    ELSE "ok"

\* ------------------------------------------------------------ sbrk
SbrkFail == 0 - 1

\* sbrk(incr) at break b: the previous break and the new one, or (void *) -1
\* and the break unchanged when the new break would leave [base, base + HeapLimit].
\* incr is an intptr_t: a size_t of 2^63 or more arrives as a negative increment.
sbrk(b, incr) ==
    IF b + incr > base + HeapLimit \/ b + incr < base
    THEN [ret |-> SbrkFail, brk |-> b]
    ELSE [ret |-> b, brk |-> b + incr]

\* ------------------------------------------------------------ get_free_block
\* The place of the size_t v in the order of unsigned 64-bit words: the
\* negative stand-ins are the largest, above Huge.
Unsigned(v) == IF v < 0 THEN 2 * Huge + 1 + v ELSE v

\* Line 128 with > for >=: a free block of exactly the size asked is passed over.
fits_strictly(is_free, size, sz) == is_free # 0 /\ Unsigned(size) > Unsigned(sz)

\* if (curr->s.is_free && curr->s.size >= sz)
fits(is_free, size, sz) == is_free # 0 /\ Unsigned(size) >= Unsigned(sz)

RECURSIVE gfb_loop(_, _, _, _)
\* while (curr) { if (curr->s.is_free && curr->s.size >= sz) return curr;
\*                curr = curr->s.next; } return NULL;
\* seen holds the records already visited: coming back to one, with nothing
\* written in between, is a loop that never ends ("spin").
gfb_loop(curr, sz, seen, cls) ==
    IF curr = NULL THEN [out |-> "ret", ptr |-> NULL, cls |-> cls]
    ELSE IF curr \in seen THEN [out |-> "spin", ptr |-> NULL, cls |-> cls]
    ELSE
        LET c1 == Worst(cls, Acc(curr + OffIsFree, SizeofUnsigned, brk))
            is_free == RdWord(mem, curr + OffIsFree, SizeofUnsigned)
            c2 == IF is_free # 0
                  THEN Worst(c1, Acc(curr + OffSize, SizeofSizeT, brk))
                  ELSE c1
            c3 == Worst(c2, Acc(curr + OffNext, SizeofPtr, brk))
        IN  IF c2 = "wild" THEN [out |-> "segv", ptr |-> NULL, cls |-> c2]
            ELSE IF fits(is_free, RdWord(mem, curr + OffSize, SizeofSizeT), sz)
            THEN [out |-> "ret", ptr |-> curr, cls |-> c2]
            ELSE IF c3 = "wild" THEN [out |-> "segv", ptr |-> NULL, cls |-> c3]
            ELSE gfb_loop(RdWord(mem, curr + OffNext, SizeofPtr), sz, seen \cup {curr}, c3)

get_free_block(sz) == gfb_loop(head, sz, {}, "ok")

\* ------------------------------------------------------------ malloc, under the lock
\* What lines 86-120 do for a request of size > 0: the outcome ("ret", "spin",
\* "segv"), the return value, the path taken and the shared state they leave.
malloc_locked(size) ==
    LET f == get_free_block(size)
        same == [out |-> f.out, cls |-> f.cls, ret |-> NULL, path |-> f.out,
                 brk |-> brk, head |-> head, tail |-> tail, mem |-> mem]
    IN  IF f.out # "ret" THEN same
        ELSE IF f.ptr # NULL
        THEN [same EXCEPT !.ret = f.ptr + SizeofHeader, !.path = "reuse",
                          !.mem = WrWord(mem, f.ptr + OffIsFree, SizeofUnsigned, 0)]
        ELSE
            LET total_sz == SizeofHead_ + size
                s == sbrk(brk, total_sz)
            IN  IF s.ret = SbrkFail THEN [same EXCEPT !.path = "oom"]
                ELSE
                    LET head_ == s.ret
                        m1 == WrWord(mem, head_ + OffSize, SizeofSizeT, size)
                        m2 == WrWord(m1, head_ + OffIsFree, SizeofUnsigned, 0)
                        m3 == WrWord(m2, head_ + OffNext, SizeofPtr, NULL)
                        m4 == IF tail # NULL
                              THEN WrWord(m3, tail + OffNext, SizeofPtr, head_)
                              ELSE m3
                        c1 == Worst(f.cls, Acc(head_, SizeofStruct, s.brk))
                        c2 == IF tail # NULL
                              THEN Worst(c1, Acc(tail + OffNext, SizeofPtr, s.brk))
                              ELSE c1
                    IN  [out |-> IF c2 = "wild" THEN "segv" ELSE "ret",
                         cls |-> c2, ret |-> head_ + SizeofHeader, path |-> "grow",
                         brk |-> s.brk,
                         head |-> IF head = NULL THEN head_ ELSE head,
                         tail |-> head_, mem |-> m4]

\* ------------------------------------------------------------ free, under the lock
RECURSIVE free_loop(_, _, _)
\* tmp = head; while (tmp) { if (tmp->s.next == tail) { tmp->s.next = NULL;
\*                            tail = tmp; } tmp = tmp->s.next; }
\* The first match stores NULL in tmp->s.next, which then ends the loop.
free_loop(tmp, seen, cls) ==
    IF tmp = NULL THEN [out |-> "ret", cls |-> cls, tail |-> tail, mem |-> mem]
    ELSE IF tmp \in seen THEN [out |-> "spin", cls |-> cls, tail |-> tail, mem |-> mem]
    ELSE
        LET c == Worst(cls, Acc(tmp + OffNext, SizeofPtr, brk))
            next == RdWord(mem, tmp + OffNext, SizeofPtr)
        IN  IF c = "wild" THEN [out |-> "segv", cls |-> c, tail |-> tail, mem |-> mem]
            ELSE IF next = tail
            THEN [out |-> "ret", cls |-> c, tail |-> tmp,
                  mem |-> WrWord(mem, tmp + OffNext, SizeofPtr, NULL)]
            ELSE free_loop(next, seen \cup {tmp}, c)

\* What lines 149-169 do for a block that is not NULL.
free_locked(block) ==
    LET header == block - SizeofHeader
        programbreak == sbrk(brk, 0).ret
        c1 == Acc(header + OffSize, SizeofSizeT, brk)
        size == RdWord(mem, header + OffSize, SizeofSizeT)
        same == [out |-> "ret", cls |-> c1, path |-> "mark",
                 brk |-> brk, head |-> head, tail |-> tail, mem |-> mem]
    IN  IF c1 = "wild" THEN [same EXCEPT !.out = "segv", !.path = "segv"]
        ELSE IF size # Huge /\ block + size = programbreak
        THEN
            LET l == IF head = tail
                     THEN [out |-> "ret", cls |-> c1, tail |-> NULL, mem |-> mem]
                     ELSE free_loop(head, {}, c1)
                hd == IF head = tail THEN NULL ELSE head
                size2 == RdWord(l.mem, header + OffSize, SizeofSizeT)
            IN  IF l.out # "ret" THEN [same EXCEPT !.out = l.out, !.path = l.out, !.cls = l.cls]
                ELSE [out |-> "ret", cls |-> l.cls, path |-> "release",
                      brk |-> sbrk(brk, 0 - SizeofHeader - size2).brk,
                      head |-> hd, tail |-> l.tail, mem |-> l.mem]
        ELSE
            LET c2 == Worst(c1, Acc(header + OffIsFree, SizeofUnsigned, brk))
            IN  [same EXCEPT !.cls = c2,
                             !.mem = WrWord(mem, header + OffIsFree, SizeofUnsigned, 1)]

\* ------------------------------------------------------------ the mutex
pthread_mutex_lock(t) == lock = 0 /\ lock' = t
pthread_mutex_unlock(t) == lock' = 0

\* ------------------------------------------------------------ the calls
\* A call as hist keeps it: the break before and after it, head and tail
\* before it and, for free(block), the size block's header held before it.
Entry(op, a, r, path, b1) ==
    [op |-> op, arg |-> a, ret |-> r, path |-> path,
     brk0 |-> brk, brk1 |-> b1, head0 |-> head, tail0 |-> tail,
     stored |-> IF op = "free" /\ a # NULL
                THEN RdWord(mem, a - SizeofHeader + OffSize, SizeofSizeT)
                ELSE 0]

Idle(t) == ~crashed /\ pc[t] = "idle" /\ budget > 0

\* malloc(0) without the test of line 83: on to the lock with size 0.
MallocZero_unchecked(t) ==
    /\ Idle(t)
    /\ budget' = budget - 1
    /\ arg' = [arg EXCEPT ![t] = 0]
    /\ pc' = [pc EXCEPT ![t] = "m_lock"]
    /\ UNCHANGED <<base, brk, head, tail, mem, lock, ret, crashed, live, hist, tag>>

\* malloc(0): line 83 returns NULL before the lock is taken.
MallocZero(t) ==
    /\ Idle(t)
    /\ budget' = budget - 1
    /\ ret' = [ret EXCEPT ![t] = NULL]
    /\ arg' = [arg EXCEPT ![t] = 0]
    /\ hist' = Append(hist, Entry("malloc", 0, NULL, "zero", brk))
    /\ UNCHANGED <<base, brk, head, tail, mem, lock, pc, crashed, live, tag>>

\* malloc(size), size > 0: on to pthread_mutex_lock, line 85.
MallocEnter(t, size) ==
    /\ Idle(t)
    /\ size # 0
    /\ budget' = budget - 1
    /\ arg' = [arg EXCEPT ![t] = size]
    /\ pc' = [pc EXCEPT ![t] = "m_lock"]
    /\ UNCHANGED <<base, brk, head, tail, mem, lock, ret, crashed, live, hist, tag>>

\* malloc without line 85: into lines 86-120 without the lock.
MallocLock_skipped(t) ==
    /\ ~crashed
    /\ pc[t] = "m_lock"
    /\ pc' = [pc EXCEPT ![t] = "m_body"]
    /\ UNCHANGED <<base, brk, head, tail, mem, lock, arg, ret, crashed, live, hist, tag, budget>>

\* pthread_mutex_lock(&global_malloc_lock), line 85.
MallocLock(t) ==
    /\ ~crashed
    /\ pc[t] = "m_lock"
    /\ pthread_mutex_lock(t)
    /\ pc' = [pc EXCEPT ![t] = "m_body"]
    /\ UNCHANGED <<base, brk, head, tail, mem, arg, ret, crashed, live, hist, tag, budget>>

\* The shared state after r, the result of malloc_locked or free_locked;
\* fault says whether an access above the break hit an unmapped page.
Outcome(t, r, fault, done) ==
    IF r.out = "segv" \/ (r.cls = "slack" /\ fault)
    THEN /\ crashed' = TRUE
         /\ UNCHANGED <<brk, head, tail, mem, pc>>
    ELSE /\ crashed' = crashed
         /\ brk' = r.brk
         /\ head' = r.head
         /\ tail' = r.tail
         /\ mem' = r.mem
         /\ pc' = [pc EXCEPT ![t] = IF r.out = "spin" THEN "spin" ELSE done]

Took(r, fault) == r.out = "ret" /\ ~(r.cls = "slack" /\ fault)

\* Lines 86-120, with the lock held.
MallocBody(t) ==
    /\ ~crashed
    /\ pc[t] = "m_body"
    /\ \E fault \in BOOLEAN :
        LET r == malloc_locked(arg[t])
        IN  /\ Outcome(t, r, fault, "m_unlock")
            /\ IF Took(r, fault)
               THEN /\ ret' = [ret EXCEPT ![t] = r.ret]
                    /\ hist' = Append(hist, Entry("malloc", arg[t], r.ret, r.path, r.brk))
                    /\ tag' = [tag EXCEPT ![t] = Len(hist) + 1]
               ELSE UNCHANGED <<ret, hist, tag>>
    /\ UNCHANGED <<base, lock, arg, live, budget>>

\* malloc without line 106: the return of NULL keeps the lock.
MallocUnlock_not_on_null(t) ==
    /\ ~crashed
    /\ pc[t] = "m_unlock"
    /\ IF ret[t] = NULL THEN lock' = lock ELSE pthread_mutex_unlock(t)
    /\ pc' = [pc EXCEPT ![t] = "idle"]
    /\ live' = IF ret[t] = NULL THEN live
               ELSE live \cup {[id |-> tag[t], ptr |-> ret[t], size |-> arg[t]]}
    /\ UNCHANGED <<base, brk, head, tail, mem, arg, ret, crashed, hist, tag, budget>>

\* pthread_mutex_unlock and return: lines 93-94, 106-107, 121-122.
MallocUnlock(t) ==
    /\ ~crashed
    /\ pc[t] = "m_unlock"
    /\ pthread_mutex_unlock(t)
    /\ pc' = [pc EXCEPT ![t] = "idle"]
    /\ live' = IF ret[t] = NULL THEN live
               ELSE live \cup {[id |-> tag[t], ptr |-> ret[t], size |-> arg[t]]}
    /\ UNCHANGED <<base, brk, head, tail, mem, arg, ret, crashed, hist, tag, budget>>

\* free(NULL): line 146 returns before the lock is taken.
FreeNull(t) ==
    /\ Idle(t)
    /\ budget' = budget - 1
    /\ arg' = [arg EXCEPT ![t] = NULL]
    /\ hist' = Append(hist, Entry("free", NULL, NULL, "null", brk))
    /\ UNCHANGED <<base, brk, head, tail, mem, lock, pc, ret, crashed, live, tag>>

\* free(block) of an allocation a caller holds: on to pthread_mutex_lock, line 148.
FreeEnter(t, a) ==
    /\ Idle(t)
    /\ a \in live
    /\ budget' = budget - 1
    /\ live' = live \ {a}
    /\ arg' = [arg EXCEPT ![t] = a.ptr]
    /\ pc' = [pc EXCEPT ![t] = "f_lock"]
    /\ UNCHANGED <<base, brk, head, tail, mem, lock, ret, crashed, hist, tag>>

FreeLock(t) ==
    /\ ~crashed
    /\ pc[t] = "f_lock"
    /\ pthread_mutex_lock(t)
    /\ pc' = [pc EXCEPT ![t] = "f_body"]
    /\ UNCHANGED <<base, brk, head, tail, mem, arg, ret, crashed, live, hist, tag, budget>>

\* Lines 149-169, with the lock held.
FreeBody(t) ==
    /\ ~crashed
    /\ pc[t] = "f_body"
    /\ \E fault \in BOOLEAN :
        LET r == free_locked(arg[t])
        IN  /\ Outcome(t, r, fault, "f_unlock")
            /\ IF Took(r, fault)
               THEN hist' = Append(hist, Entry("free", arg[t], NULL, r.path, r.brk))
               ELSE UNCHANGED hist
    /\ UNCHANGED <<base, lock, arg, ret, live, tag, budget>>

\* pthread_mutex_unlock and return: lines 166-167, 170-171.
FreeUnlock(t) ==
    /\ ~crashed
    /\ pc[t] = "f_unlock"
    /\ pthread_mutex_unlock(t)
    /\ pc' = [pc EXCEPT ![t] = "idle"]
    /\ UNCHANGED <<base, brk, head, tail, mem, arg, ret, crashed, live, hist, tag, budget>>

\* ------------------------------------------------------------ specifications
InitWith(n) ==
    /\ base \in InitBreaks
    /\ brk = base
    /\ head = NULL
    /\ tail = NULL
    /\ mem = <<>>
    /\ lock = 0
    /\ pc = [t \in Threads |-> "idle"]
    /\ arg = [t \in Threads |-> 0]
    /\ ret = [t \in Threads |-> NULL]
    /\ crashed = FALSE
    /\ live = {}
    /\ hist = <<>>
    /\ tag = [t \in Threads |-> 0]
    /\ budget = n

Init == InitWith(MaxOps)

Next ==
    \E t \in Threads :
        \/ MallocZero(t)
        \/ \E size \in Sizes : MallocEnter(t, size)
        \/ MallocLock(t)
        \/ MallocBody(t)
        \/ MallocUnlock(t)
        \/ FreeNull(t)
        \/ \E a \in live : FreeEnter(t, a)
        \/ FreeLock(t)
        \/ FreeBody(t)
        \/ FreeUnlock(t)

Spec == Init /\ [][Next]_vars

\* One caller, more calls.
InitSeq == InitWith(MaxSeqOps)

NextSeq ==
    \/ MallocZero(1)
    \/ \E size \in Sizes : MallocEnter(1, size)
    \/ MallocLock(1)
    \/ MallocBody(1)
    \/ MallocUnlock(1)
    \/ FreeNull(1)
    \/ \E a \in live : FreeEnter(1, a)
    \/ FreeLock(1)
    \/ FreeBody(1)
    \/ FreeUnlock(1)

SpecSeq == InitSeq /\ [][NextSeq]_vars

\* One caller, the scenario's sizes.
NextScen ==
    \/ MallocZero(1)
    \/ \E size \in ScenSizes : MallocEnter(1, size)
    \/ MallocLock(1)
    \/ MallocBody(1)
    \/ MallocUnlock(1)
    \/ FreeNull(1)
    \/ \E a \in live : FreeEnter(1, a)
    \/ FreeLock(1)
    \/ FreeBody(1)
    \/ FreeUnlock(1)

SpecScen == InitSeq /\ [][NextScen]_vars

\* One caller, requests near SIZE_MAX.
NextBig ==
    \/ MallocZero(1)
    \/ \E size \in BigSizes : MallocEnter(1, size)
    \/ MallocLock(1)
    \/ MallocBody(1)
    \/ MallocUnlock(1)
    \/ FreeNull(1)
    \/ \E a \in live : FreeEnter(1, a)
    \/ FreeLock(1)
    \/ FreeBody(1)
    \/ FreeUnlock(1)

SpecBig == InitSeq /\ [][NextBig]_vars

\* ------------------------------------------------------------ claims
\* Call i of hist is a malloc that returned a block.
Allocated(i) == hist[i].op = "malloc" /\ hist[i].ret # NULL
\* Call j of hist is free() of the block that call i returned.
Frees(j, i) == hist[j].op = "free" /\ hist[j].path # "null" /\ hist[j].arg = hist[i].ret

\* C1: at every moment, any two allocations the callers hold (returned by
\* malloc and not yet passed to free) have disjoint payloads [ptr, ptr + size).
C1_LivePayloadsDisjoint ==
    \A a, b \in live :
        a # b => (a.ptr + a.size <= b.ptr \/ b.ptr + b.size <= a.ptr)

\* C2: k mallocs that each extend the heap, followed directly by the frees of
\* their k blocks in reverse order, leave the break where it was before the
\* first of them.
C2_LifoRestoresBreak ==
    \A i \in 1..Len(hist), k \in 1..Len(hist) :
        (/\ i + 2 * k - 1 <= Len(hist)
         /\ \A j \in 0..(k - 1) :
                /\ Allocated(i + j)
                /\ hist[i + j].path = "grow"
                /\ Frees(i + 2 * k - 1 - j, i + j))
        => hist[i + 2 * k - 1].brk1 = hist[i].brk0

\* The first n calls are those of the scenario: malloc(10) = P1,
\* malloc(20) = P2, free(P2), free(P1), malloc(5).
Scenario(n) ==
    /\ Len(hist) >= n
    /\ n >= 1 => hist[1].op = "malloc" /\ hist[1].arg = 10
    /\ n >= 2 => hist[2].op = "malloc" /\ hist[2].arg = 20
    /\ n >= 3 => Allocated(2) /\ Frees(3, 2)
    /\ n >= 4 => Allocated(1) /\ Frees(4, 1)
    /\ n >= 5 => hist[5].op = "malloc" /\ hist[5].arg = 5

\* C6: from the empty list at break B0, with H the size of a header, the
\* scenario leaves the break at B0+H+10, B0+2H+30, B0+H+10 and B0 after its
\* first four calls; after free(P2) tail is P1's header, after free(P1) head
\* and tail are NULL, and the last malloc returns B0+H.
C6_EndToEndScenario ==
    /\ Scenario(1) => hist[1].brk1 = base + SizeofHeader + 10
    /\ Scenario(2) => hist[2].brk1 = base + 2 * SizeofHeader + 30
    /\ Scenario(3) => hist[3].brk1 = base + SizeofHeader + 10
    /\ Scenario(3) /\ Len(hist) = 3 => tail = hist[1].ret - SizeofHeader
    /\ Scenario(4) => hist[4].brk1 = base
    /\ Scenario(4) /\ Len(hist) = 4 => head = NULL /\ tail = NULL
    /\ Scenario(5) => hist[5].ret = base + SizeofHeader

\* C9: a header takes a multiple of 16 bytes and, the initial break being a
\* multiple of 16, so is every address that malloc returns.
C9_PayloadsAligned16 ==
    /\ SizeofHeader % SizeofALIGN = 0
    /\ base % SizeofALIGN = 0 =>
           \A i \in 1..Len(hist) : Allocated(i) => hist[i].ret % SizeofALIGN = 0

RECURSIVE ListFrom(_, _, _)
\* The records of the list in memory m: those met from p along next, up to
\* NULL, to a record met before or to an address outside the heap page.
ListFrom(m, p, seen) ==
    IF p = NULL \/ p \in seen \/ Acc(p, SizeofStruct, base + PageSize) = "wild"
    THEN seen
    ELSE ListFrom(m, RdWord(m, p + OffNext, SizeofPtr), seen \cup {p})

\* C4: free(P) of a block whose record is not the last of the list changes
\* nothing but that record's is_free, which becomes true: the break, head,
\* tail, every record's size and next and every other record's is_free stay.
C4_FreeOfNonTailOnlyMarks ==
    [][\A t \in Threads :
        (pc[t] = "f_body" /\ pc'[t] = "f_unlock" /\ arg[t] - SizeofHeader # tail)
        => LET header == arg[t] - SizeofHeader
           IN  /\ brk' = brk
               /\ head' = head
               /\ tail' = tail
               /\ RdWord(mem', header + OffIsFree, SizeofUnsigned) # 0
               /\ \A r \in ListFrom(mem, head, {}) :
                    /\ RdWord(mem', r + OffSize, SizeofSizeT)
                         = RdWord(mem, r + OffSize, SizeofSizeT)
                    /\ RdWord(mem', r + OffNext, SizeofPtr)
                         = RdWord(mem, r + OffNext, SizeofPtr)
                    /\ r # header =>
                         RdWord(mem', r + OffIsFree, SizeofUnsigned)
                           = RdWord(mem, r + OffIsFree, SizeofUnsigned)]_vars

\* C5: after free(P) of a block whose record is not the tail and holds size
\* S, the next malloc(K) with 0 < K <= S returns P and leaves the break alone.
C5_FreedNonTailIsReused ==
    \A i \in 1..Len(hist) :
        (/\ i + 1 <= Len(hist)
         /\ hist[i].op = "free"
         /\ hist[i].arg # NULL
         /\ hist[i].arg - SizeofHeader # hist[i].tail0
         /\ hist[i + 1].op = "malloc"
         /\ 0 < hist[i + 1].arg
         /\ hist[i + 1].arg <= hist[i].stored)
        => /\ hist[i + 1].ret = hist[i].arg
           /\ hist[i + 1].brk1 = hist[i + 1].brk0

\* A thread between pthread_mutex_lock and the return of malloc.
InMalloc(t) == pc[t] \in {"m_lock", "m_body", "m_unlock"}
\* A thread that has taken the lock and not yet given it back.
InSection(t) == pc[t] \in {"m_body", "m_unlock", "f_body", "f_unlock", "spin"}
\* The step appends a call of operation op to hist.
Logs(op) == Len(hist') = Len(hist) + 1 /\ hist'[Len(hist')].op = op

\* C7: malloc(0) returns NULL, never goes for the lock, and leaves the break,
\* head, tail, every byte of the heap and the lock as they were.
C7_MallocZeroIsNoOp ==
    /\ [](\A t \in Threads : InMalloc(t) => arg[t] # 0)
    /\ [][(Logs("malloc") /\ hist'[Len(hist')].arg = 0)
          => /\ hist'[Len(hist')].ret = NULL
             /\ UNCHANGED <<brk, head, tail, mem, lock>>]_vars

\* malloc(0) has been called in a state where the list is not empty.
C7_Witness ==
    \E i \in 1..Len(hist) :
        hist[i].op = "malloc" /\ hist[i].arg = 0 /\ hist[i].head0 # NULL

\* C8: when no block can be reused and sbrk() fails, malloc returns NULL, has
\* left the break, head, tail and every byte of the heap as they were, and
\* gives the lock back: a thread that has returned does not hold it.
C8_OutOfMemoryIsClean ==
    /\ [](\A t \in Threads : lock = t => InSection(t))
    /\ [][(Logs("malloc") /\ hist'[Len(hist')].path = "oom")
          => /\ hist'[Len(hist')].ret = NULL
             /\ UNCHANGED <<brk, head, tail, mem>>
             /\ \A t \in Threads : pc[t] = "m_body" => pc'[t] = "m_unlock"]_vars

\* A malloc has failed for want of memory and returned.
C8_Witness ==
    /\ Len(hist) > 0
    /\ hist[Len(hist)].path = "oom"
    /\ \A t \in Threads : pc[t] = "idle"

\* C10: a thread reads or writes head, tail, the headers or the break only
\* between taking the lock and giving it back; it then holds the lock, and no
\* second thread is there with it.
C10_SharedStateUnderLock ==
    /\ [](\A t \in Threads : InSection(t) => lock = t)
    /\ [](\A t, u \in Threads : InSection(t) /\ InSection(u) => t = u)
    /\ [][<<brk, head, tail, mem>> # <<brk', head', tail', mem'>>
          => \E t \in Threads : lock = t /\ pc[t] \in {"m_body", "f_body"}]_vars

\* One thread is inside malloc with the lock while another waits for it.
C10_Witness ==
    \E t, u \in Threads : pc[t] = "m_body" /\ lock = t /\ pc[u] \in {"m_lock", "f_lock"}

RECURSIVE ListSeq(_, _, _)
\* The records of the list in memory m in list order: those met from p along
\* next, up to NULL, to a record met before or to an address outside the page.
ListSeq(m, p, acc) ==
    IF \/ p = NULL
       \/ \E k \in 1..Len(acc) : acc[k] = p
       \/ Acc(p, SizeofStruct, base + PageSize) = "wild"
    THEN acc
    ELSE ListSeq(m, RdWord(m, p + OffNext, SizeofPtr), Append(acc, p))

\* The fields of record r as memory m holds them.
SizeAt(m, r) == RdWord(m, r + OffSize, SizeofSizeT)
IsFreeAt(m, r) == RdWord(m, r + OffIsFree, SizeofUnsigned)
NextAt(m, r) == RdWord(m, r + OffNext, SizeofPtr)

\* Record r is free and large enough for a request of s bytes.
Qualifies(r, s) == IsFreeAt(mem, r) # 0 /\ SizeAt(mem, r) >= s

\* The first record of the list, in list order, that qualifies for s; NULL
\* when there is none.
FirstQualifying(s) ==
    LET l == ListSeq(mem, head, <<>>)
        q == {k \in 1..Len(l) : Qualifies(l[k], s)}
    IN  IF q = {} THEN NULL
        ELSE l[CHOOSE k \in q : \A j \in q : k <= j]

\* C11: the search that malloc(s), s > 0, makes returns the first record in
\* list order that is free and of size >= s, never a later one, and returns
\* NULL exactly when the list is empty or holds no such record.
C11_SearchIsFirstFit ==
    \A t \in Threads :
        pc[t] = "m_body" =>
            LET f == get_free_block(arg[t])
            IN  /\ f.out = "ret"
                /\ f.ptr = FirstQualifying(arg[t])
                /\ f.ptr = NULL <=>
                     \A r \in ListFrom(mem, head, {}) : ~Qualifies(r, arg[t])

\* The list is what the search takes it to be: from head along next it comes
\* to NULL, without meeting a record twice or leaving the heap page.
ListEnds ==
    LET l == ListSeq(mem, head, <<>>)
    IN  IF Len(l) = 0 THEN head = NULL ELSE NextAt(mem, l[Len(l)]) = NULL

\* On a list that ends, the search is first-fit: what C11 says, for the lists
\* the program was meant to build.
FirstFitOnListThatEnds == ListEnds => C11_SearchIsFirstFit

\* Call j of hist extended the heap for the block that call i, later, frees,
\* and is the last call before i to have done so.
Created(j, i) ==
    /\ j < i
    /\ hist[j].path = "grow"
    /\ hist[j].ret = hist[i].arg
    /\ \A k \in (j + 1)..(i - 1) : ~(hist[k].path = "grow" /\ hist[k].ret = hist[i].arg)

\* C12: free(P) takes the release path only when P's record is the tail, and
\* then lowers the break by as much as the malloc that made the record had
\* raised it.
C12_ReleaseOnlyOfTail ==
    \A i \in 1..Len(hist) :
        hist[i].path = "release" =>
            /\ hist[i].arg - SizeofHeader = hist[i].tail0
            /\ \A j \in 1..Len(hist) :
                   Created(j, i) =>
                       hist[i].brk0 - hist[i].brk1 = hist[j].brk1 - hist[j].brk0

\* The place of record r in the sequence l of records, 0 when it is not there.
Pos(l, r) == IF \E k \in 1..Len(l) : l[k] = r
             THEN CHOOSE k \in 1..Len(l) : l[k] = r
             ELSE 0

\* C13: read from head along next, the records of the list have strictly
\* increasing addresses, and two records that stay in the list keep their
\* order.
C13_ListAscending ==
    /\ [](\A r \in ListFrom(mem, head, {}) :
             NextAt(mem, r) # NULL => NextAt(mem, r) > r)
    /\ [][LET l0 == ListSeq(mem, head, <<>>)
              l1 == ListSeq(mem', head', <<>>)
          IN  \A a \in ListFrom(mem, head, {}), b \in ListFrom(mem, head, {}) :
                  (Pos(l0, a) < Pos(l0, b) /\ Pos(l1, a) > 0 /\ Pos(l1, b) > 0)
                  => Pos(l1, a) < Pos(l1, b)]_vars

\* C14: a malloc(size > 0) that finds no block to reuse and whose sbrk succeeds
\* raises the break by sizeof(header_t) + size, puts the new record at the old
\* break with size = size, is_free = 0, next = NULL, makes it the tail (and
\* the head of an empty list, else the old tail's next) and returns the
\* record's address plus sizeof(header_t), with the payload below the new break.
C14_GrowPath ==
    [][(Logs("malloc") /\ hist'[Len(hist')].path = "grow") =>
          LET e == hist'[Len(hist')]
          IN  /\ brk' = brk + SizeofHeader + e.arg
              /\ tail' = brk
              /\ SizeAt(mem', brk) = e.arg
              /\ IsFreeAt(mem', brk) = 0
              /\ NextAt(mem', brk) = NULL
              /\ IF head = NULL
                 THEN head' = brk
                 ELSE head' = head /\ NextAt(mem', tail) = brk
              /\ e.ret = brk + SizeofHeader
              /\ e.ret + e.arg <= brk']_vars

\* C15: no malloc lowers the break, whatever the size, sizes whose sum with the
\* header wraps around the 64-bit word included: the break after a malloc that
\* returns is at or above the break before it, and the same when a free block
\* is reused.
C15_MallocNeverLowersBreak ==
    \A i \in 1..Len(hist) :
        hist[i].op = "malloc" =>
            /\ hist[i].brk1 >= hist[i].brk0
            /\ hist[i].path = "reuse" => hist[i].brk1 = hist[i].brk0

\* C16: the size field of a record never changes while the record is in the
\* list (a reuse stores is_free only, nothing is split, nothing is merged), and
\* the number of records changes by +1 when the heap grows, by -1 when the
\* tail is released, and not otherwise.
C16_SizeFieldsAndRecordCount ==
    [][LET before == ListFrom(mem, head, {})
           after == ListFrom(mem', head', {})
           grew == Logs("malloc") /\ hist'[Len(hist')].path = "grow"
           released == Logs("free") /\ hist'[Len(hist')].path = "release"
       IN  /\ \A r \in before \cap after : SizeAt(mem', r) = SizeAt(mem, r)
           /\ Cardinality(after) - Cardinality(before) =
                  IF grew THEN 1 ELSE IF released THEN 0 - 1 ELSE 0]_vars

\* C17: every call of malloc and of free returns, with global_malloc_lock
\* released: the scan of get_free_block and the scan of free for the record
\* before the tail end in every state. A thread at "spin" is in a scan that has
\* come back to a record it has visited with nothing stored in between; it has
\* no further step, so no scheduling lets its call return.
C17_ScansEndLockReleased ==
    /\ \A t \in Threads : pc[t] # "spin"
    /\ \A t \in Threads : pc[t] = "idle" => lock # t

RECURSIVE Footprints(_, _)
\* The sum of sizeof(header_t) + size over the records l[k..Len(l)].
Footprints(l, k) ==
    IF k > Len(l) THEN 0
    ELSE SizeofHeader + SizeAt(mem, l[k]) + Footprints(l, k + 1)

\* C18: when nobody holds the lock, the break is the initial break plus the
\* sum of sizeof(header_t) + size over the records of the list, each record
\* begins where the payload of the one before it ends, and the header and the
\* payload of every block a caller holds lie in [initial break, break).
C18_HeapTiling ==
    lock = 0 =>
        LET l == ListSeq(mem, head, <<>>)
        IN  /\ brk = base + Footprints(l, 1)
            /\ \A k \in 1..(Len(l) - 1) :
                   l[k + 1] = l[k] + SizeofHeader + SizeAt(mem, l[k])
            /\ \A a \in live :
                   a.ptr - SizeofHeader >= base /\ a.ptr + a.size <= brk

\* C19: when nobody holds the lock, head is NULL exactly when tail is NULL; a
\* list that is not empty runs from head along next without a cycle to tail,
\* whose next is NULL; and the record of every block a caller holds is met on
\* the way.
C19_ListWellFormed ==
    lock = 0 =>
        LET l == ListSeq(mem, head, <<>>)
        IN  /\ head = NULL <=> tail = NULL
            /\ head # NULL =>
                   /\ Len(l) > 0
                   /\ l[Len(l)] = tail
                   /\ NextAt(mem, tail) = NULL
            /\ \A a \in live : \E k \in 1..Len(l) : l[k] = a.ptr - SizeofHeader

\* C20: when nobody holds the lock and no free is waiting for it, a record of
\* the list has is_free = 0 exactly when a caller holds its payload; no two
\* allocations that callers hold have the same address; and a malloc(size)
\* that returns a block returns one whose record holds a size >= size.
C20_FlagMatchesLiveness ==
    /\ (lock = 0 /\ \A t \in Threads : pc[t] # "f_lock") =>
           /\ \A r \in ListFrom(mem, head, {}) :
                  IsFreeAt(mem, r) = 0 <=> \E a \in live : a.ptr = r + SizeofHeader
           /\ \A a \in live, b \in live : a.ptr = b.ptr => a = b
    /\ \A t \in Threads :
           (pc[t] = "m_unlock" /\ ret[t] # NULL) =>
               Unsigned(SizeAt(mem, ret[t] - SizeofHeader)) >= Unsigned(arg[t])

====
